---- MODULE Spec2Model ----
(***************************************************************************)
(* Page replacement visualizer: the simulation core computeSteps of        *)
(* script.js (FIFO, LRU, Optimal), modelled one forEach callback at a time.*)
(* Arrays are TLA+ sequences (slot k of the code is position k+1 here);    *)
(* every index stored in a step record is the code's 0-based index.        *)
(***************************************************************************)
EXTENDS Integers, Sequences, FiniteSets, TLC

\* ---------------------------------------------------------------- bounds
MaxLen == 5
MaxPage == 2
MaxFrames == 2
MaxCallLen == 2
MaxPending == 2

\* ------------------------------------------------------- JavaScript values
\* Page identifiers are the naturals; undefined and null are two values
\* outside them; Infinity is larger than every index of a bounded run.
Undefined == 0 - 1
Null == 0 - 2
Infinity == 1000000

Max2(a, b) == IF a > b THEN a ELSE b
Min2(a, b) == IF a < b THEN a ELSE b

\* includes read as a test of the last slot only.
IncludesLastOnly(arr, x) == Len(arr) > 0 /\ arr[Len(arr)] = x

\* Array.prototype.includes
Includes(arr, x) == \E k \in 1..Len(arr) : arr[k] = x

\* Array.prototype.indexOf: 0-based index of the first occurrence, or -1
IndexOf(arr, x) ==
  IF \E k \in 1..Len(arr) : arr[k] = x
  THEN (CHOOSE k \in 1..Len(arr) :
          arr[k] = x /\ \A j \in 1..(k - 1) : arr[j] # x) - 1
  ELSE 0 - 1

\* Array.prototype.slice(from)
Slice(arr, from) == SubSeq(arr, from + 1, Len(arr))

\* The replacement done as remove-then-push: the victim's slot is closed and
\* the item goes to the end.
SpliceThenPush(arr, start, deleteCount, item) ==
  LET s == IF start < 0 THEN Max2(Len(arr) + start, 0) ELSE Min2(start, Len(arr))
      d == Min2(Max2(deleteCount, 0), Len(arr) - s)
  IN SubSeq(arr, 1, s) \o SubSeq(arr, s + d + 1, Len(arr)) \o <<item>>

\* splice called with deleteCount 0: the item is inserted, nothing removed.
SpliceInsertOnly(arr, start, deleteCount, item) ==
  LET s == IF start < 0 THEN Max2(Len(arr) + start, 0) ELSE Min2(start, Len(arr))
  IN SubSeq(arr, 1, s) \o <<item>> \o SubSeq(arr, s + 1, Len(arr))

\* Array.prototype.splice(start, deleteCount, item): the array afterwards.
\* A negative start counts from the end and is clamped at 0; deleteCount is
\* clamped to what is left after start.
Splice(arr, start, deleteCount, item) ==
  LET s == IF start < 0 THEN Max2(Len(arr) + start, 0) ELSE Min2(start, Len(arr))
      d == Min2(Max2(deleteCount, 0), Len(arr) - s)
  IN SubSeq(arr, 1, s) \o <<item>> \o SubSeq(arr, s + d + 1, Len(arr))

\* shift read as a peek: the head is returned but stays in the queue.
ShiftRestKeep(arr) == arr

\* Array.prototype.shift: the removed element (undefined on an empty array)
\* and the array afterwards.
ShiftValue(arr) == IF Len(arr) = 0 THEN Undefined ELSE Head(arr)
ShiftRest(arr) == IF Len(arr) = 0 THEN arr ELSE Tail(arr)

\* Map.prototype.has / get / set / delete, the map being a function whose
\* domain is its key set.
MapHas(m, k) == k \in DOMAIN m
MapGet(m, k) == m[k]
MapSet(m, k, v) == [x \in (DOMAIN m) \cup {k} |-> IF x = k THEN v ELSE m[x]]
MapDelete(m, k) == [x \in (DOMAIN m) \ {k} |-> m[x]]
EmptyMap == [x \in {} |-> 0]

\* ------------------------------------------------------------ computeSteps
\* The locals of one call: memory, meta.fifoQueue, meta.lastUsed, result,
\* faults, hits.
InitRun ==
  [memory |-> <<>>, fifoQueue |-> <<>>, lastUsed |-> EmptyMap,
   result |-> <<>>, faults |-> 0, hits |-> 0]

\* The step record pushed on result; memory is cloneMemory(), a copy of the
\* frame array at the time of the push.  info is the note, as its fixed text
\* followed by the interpolated page.
StepRecord(i, page, memory, hit, replacedIndex, info) ==
  [index |-> i, page |-> page, memory |-> memory, hit |-> hit,
   replacedIndex |-> replacedIndex, info |-> info]

\* The hit branch without hits++.
HitStepUncounted(s, page, i) ==
  [s EXCEPT !.lastUsed = MapSet(@, page, i),
            !.result = Append(@, [index |-> i, page |-> page,
                                  memory |-> s.memory, hit |-> TRUE,
                                  replacedIndex |-> 0 - 1, info |-> <<"Hit">>])]

\* The hit branch without lastUsed.set(page, i).
HitStepNoStamp(s, page, i) ==
  [s EXCEPT !.hits = @ + 1,
            !.result = Append(@, [index |-> i, page |-> page,
                                  memory |-> s.memory, hit |-> TRUE,
                                  replacedIndex |-> 0 - 1, info |-> <<"Hit">>])]

\* if (inMem) { hits++; lastUsed.set(page, i); result.push(...); return; }
HitStep(s, page, i) ==
  [s EXCEPT !.hits = @ + 1,
            !.lastUsed = MapSet(@, page, i),
            !.result = Append(@, StepRecord(i, page, s.memory, TRUE, 0 - 1,
                                            <<"Hit">>))]

\* The free-slot branch with the snapshot cloned before memory.push(page).
PlaceFreeStaleSnapshot(s, page, i) ==
  [s EXCEPT !.memory = Append(@, page),
            !.fifoQueue = Append(@, page),
            !.lastUsed = MapSet(@, page, i),
            !.result = Append(@, [index |-> i, page |-> page,
                                  memory |-> s.memory, hit |-> FALSE,
                                  replacedIndex |-> Len(s.memory),
                                  info |-> <<"Placed into free slot">>])]

\* if (memory.length < frameCount) { push, enqueue, stamp, record; return; }
PlaceFree(s, page, i) ==
  LET mem == Append(s.memory, page)
  IN [s EXCEPT !.memory = mem,
               !.fifoQueue = Append(@, page),
               !.lastUsed = MapSet(@, page, i),
               !.result = Append(@, StepRecord(i, page, mem, FALSE,
                                               Len(mem) - 1,
                                               <<"Placed into free slot">>))]

\* The fifo branch taking the newest arrival (pop) instead of the oldest.
ReplaceFifoNewest(s, page, i) ==
  LET old == IF Len(s.fifoQueue) = 0 THEN Undefined
             ELSE s.fifoQueue[Len(s.fifoQueue)]
      replaceIndex == IndexOf(s.memory, old)
      mem == Splice(s.memory, replaceIndex, 1, page)
  IN [s EXCEPT !.memory = mem,
               !.fifoQueue = Append(SubSeq(@, 1, Len(@) - 1), page),
               !.lastUsed = MapDelete(MapSet(@, page, i), old),
               !.result = Append(@, [index |-> i, page |-> page,
                                     memory |-> mem, hit |-> FALSE,
                                     replacedIndex |-> replaceIndex,
                                     info |-> <<"FIFO replaced", old>>])]

\* algo === "fifo": the victim is the head of the arrival queue
ReplaceFifo(s, page, i) ==
  LET old == ShiftValue(s.fifoQueue)
      replaceIndex == IndexOf(s.memory, old)
      mem == Splice(s.memory, replaceIndex, 1, page)
  IN [s EXCEPT !.memory = mem,
               !.fifoQueue = Append(ShiftRest(@), page),
               !.lastUsed = MapDelete(MapSet(@, page, i), old),
               !.result = Append(@, StepRecord(i, page, mem, FALSE,
                                               replaceIndex,
                                               <<"FIFO replaced", old>>))]

\* The scan of the lru branch from slot k on: the page with the smallest
\* lastUsed, the first one winning (last < oldestIndex is strict).
RECURSIVE LruScan(_, _, _, _, _)
LruScan(memory, lastUsed, k, oldestPage, oldestIndex) ==
  IF k > Len(memory) THEN oldestPage
  ELSE LET p == memory[k]
           last == IF MapHas(lastUsed, p) THEN MapGet(lastUsed, p) ELSE 0 - 1
       IN IF last < oldestIndex
          THEN LruScan(memory, lastUsed, k + 1, p, last)
          ELSE LruScan(memory, lastUsed, k + 1, oldestPage, oldestIndex)

LruVictim(memory, lastUsed) == LruScan(memory, lastUsed, 1, Null, Infinity)

\* if (qidx !== -1) fifoQueue.splice(qidx, 1, page)
QueueSwap(queue, victim, page) ==
  LET qidx == IndexOf(queue, victim)
  IN IF qidx # 0 - 1 THEN Splice(queue, qidx, 1, page) ELSE queue

\* The lru branch without the upkeep of fifoQueue.
ReplaceLruStaleQueue(s, page, i) ==
  LET oldestPage == LruVictim(s.memory, s.lastUsed)
      replaceIndex == IndexOf(s.memory, oldestPage)
      mem == Splice(s.memory, replaceIndex, 1, page)
  IN [s EXCEPT !.memory = mem,
               !.lastUsed = MapSet(MapDelete(@, oldestPage), page, i),
               !.result = Append(@, [index |-> i, page |-> page,
                                     memory |-> mem, hit |-> FALSE,
                                     replacedIndex |-> replaceIndex,
                                     info |-> <<"LRU replaced", oldestPage>>])]

\* algo === "lru"
ReplaceLru(s, page, i) ==
  LET oldestPage == LruVictim(s.memory, s.lastUsed)
      replaceIndex == IndexOf(s.memory, oldestPage)
      mem == Splice(s.memory, replaceIndex, 1, page)
  IN [s EXCEPT !.memory = mem,
               !.lastUsed = MapSet(MapDelete(@, oldestPage), page, i),
               !.fifoQueue = QueueSwap(@, oldestPage, page),
               !.result = Append(@, StepRecord(i, page, mem, FALSE,
                                               replaceIndex,
                                               <<"LRU replaced", oldestPage>>))]

\* The optimal scan without farthest = Infinity in the never-used-again case.
RECURSIVE OptimalScanNoInfinity(_, _, _, _, _)
OptimalScanNoInfinity(memory, future, k, victim, farthest) ==
  IF k > Len(memory) THEN victim
  ELSE LET m == memory[k]
           nextUse == IndexOf(future, m)
       IN IF nextUse = 0 - 1
          THEN OptimalScanNoInfinity(memory, future, k + 1, m, farthest)
          ELSE IF nextUse > farthest
               THEN OptimalScanNoInfinity(memory, future, k + 1, m, nextUse)
               ELSE OptimalScanNoInfinity(memory, future, k + 1, victim, farthest)

\* The optimal scan keeping the first never-used-again page it meets.
RECURSIVE OptimalScanFirstInfinity(_, _, _, _, _)
OptimalScanFirstInfinity(memory, future, k, victim, farthest) ==
  IF k > Len(memory) THEN victim
  ELSE LET m == memory[k]
           nextUse == IndexOf(future, m)
       IN IF nextUse = 0 - 1
          THEN IF farthest = Infinity
               THEN OptimalScanFirstInfinity(memory, future, k + 1, victim, farthest)
               ELSE OptimalScanFirstInfinity(memory, future, k + 1, m, Infinity)
          ELSE IF nextUse > farthest
               THEN OptimalScanFirstInfinity(memory, future, k + 1, m, nextUse)
               ELSE OptimalScanFirstInfinity(memory, future, k + 1, victim, farthest)

\* The scan of the optimal branch from slot k on: a page that does not occur
\* in future becomes the victim unconditionally, otherwise a page with a
\* strictly larger next use does.
RECURSIVE OptimalScan(_, _, _, _, _)
OptimalScan(memory, future, k, victim, farthest) ==
  IF k > Len(memory) THEN victim
  ELSE LET m == memory[k]
           nextUse == IndexOf(future, m)
       IN IF nextUse = 0 - 1
          THEN OptimalScan(memory, future, k + 1, m, Infinity)
          ELSE IF nextUse > farthest
               THEN OptimalScan(memory, future, k + 1, m, nextUse)
               ELSE OptimalScan(memory, future, k + 1, victim, farthest)

OptimalVictim(memory, future) == OptimalScan(memory, future, 1, Null, 0 - 1)

\* algo === "optimal"
ReplaceOptimal(s, page, i, pgs) ==
  LET future == Slice(pgs, i + 1)
      victim == OptimalVictim(s.memory, future)
      replaceIndex == IndexOf(s.memory, victim)
      mem == Splice(s.memory, replaceIndex, 1, page)
  IN [s EXCEPT !.memory = mem,
               !.lastUsed = MapSet(MapDelete(@, victim), page, i),
               !.fifoQueue = QueueSwap(@, victim, page),
               !.result = Append(@, StepRecord(i, page, mem, FALSE,
                                               replaceIndex,
                                               <<"Optimal replaced", victim>>))]

\* The callback with the free-slot test written memory.length <= frameCount.
CallbackOffByOne(s, pgs, i, frames, alg) ==
  LET page == pgs[i + 1]
  IN IF Includes(s.memory, page) THEN HitStep(s, page, i)
     ELSE LET f == [s EXCEPT !.faults = @ + 1]
          IN IF Len(f.memory) <= frames THEN PlaceFree(f, page, i)
             ELSE IF alg = "fifo" THEN ReplaceFifo(f, page, i)
             ELSE IF alg = "lru" THEN ReplaceLru(f, page, i)
             ELSE IF alg = "optimal" THEN ReplaceOptimal(f, page, i, pgs)
             ELSE f

\* The forEach callback for the access at 0-based index i.  A fault is
\* counted before the branch is chosen; a selector that is none of the
\* three falls out of the if/else chain with nothing pushed.
Callback(s, pgs, i, frames, alg) ==
  LET page == pgs[i + 1]
  IN IF Includes(s.memory, page) THEN HitStep(s, page, i)
     ELSE LET f == [s EXCEPT !.faults = @ + 1]
          IN IF Len(f.memory) < frames THEN PlaceFree(f, page, i)
             ELSE IF alg = "fifo" THEN ReplaceFifo(f, page, i)
             ELSE IF alg = "lru" THEN ReplaceLru(f, page, i)
             ELSE IF alg = "optimal" THEN ReplaceOptimal(f, page, i, pgs)
             ELSE f

\* return { steps: result, totals: { faults, hits } }
ReturnValue(s) ==
  [steps |-> s.result, totals |-> [faults |-> s.faults, hits |-> s.hits]]

RECURSIVE RunFrom(_, _, _, _, _)
RunFrom(s, pgs, i, frames, alg) ==
  IF i >= Len(pgs) THEN s
  ELSE RunFrom(Callback(s, pgs, i, frames, alg), pgs, i + 1, frames, alg)

\* The whole call, as one function of its arguments.
ComputeSteps(pgs, frames, alg) ==
  ReturnValue(RunFrom(InitRun, pgs, 0, frames, alg))

\* ------------------------------------------------- simulate (legacy loop)
\* Array.prototype.lastIndexOf: 0-based index of the last occurrence, or -1
LastIndexOf(arr, x) ==
  IF \E k \in 1..Len(arr) : arr[k] = x
  THEN (CHOOSE k \in 1..Len(arr) :
          arr[k] = x /\ \A j \in (k + 1)..Len(arr) : arr[j] # x) - 1
  ELSE 0 - 1

\* Array.prototype.splice(start, deleteCount) with no item: the array
\* afterwards.
SpliceOut(arr, start, deleteCount) ==
  LET s == IF start < 0 THEN Max2(Len(arr) + start, 0) ELSE Min2(start, Len(arr))
      d == Min2(Max2(deleteCount, 0), Len(arr) - s)
  IN SubSeq(arr, 1, s) \o SubSeq(arr, s + d + 1, Len(arr))

\* Math.min(...xs) and Math.max(...xs); Infinity and -Infinity on no argument.
MathMin(xs) ==
  IF Len(xs) = 0 THEN Infinity
  ELSE CHOOSE x \in {xs[k] : k \in 1..Len(xs)} : \A k \in 1..Len(xs) : x <= xs[k]
MathMax(xs) ==
  IF Len(xs) = 0 THEN 0 - Infinity
  ELSE CHOOSE x \in {xs[k] : k \in 1..Len(xs)} : \A k \in 1..Len(xs) : x >= xs[k]

\* The lru victim slot read with past.indexOf (first use) for past.lastIndexOf.
LegacyLruSlotFirstUse(memory, pgs, i) ==
  LET past == SubSeq(pgs, 1, i)
      indexes == [k \in 1..Len(memory) |-> IndexOf(past, memory[k])]
  IN IndexOf(indexes, MathMin(indexes))

\* lru: the slot whose page was last used longest ago in pages.slice(0, i)
LegacyLruSlot(memory, pgs, i) ==
  LET past == SubSeq(pgs, 1, i)
      indexes == [k \in 1..Len(memory) |-> LastIndexOf(past, memory[k])]
  IN IndexOf(indexes, MathMin(indexes))

\* optimal: the first slot whose page is next used farthest in
\* pages.slice(i + 1), a page not used again counting as Infinity
LegacyOptimalSlot(memory, pgs, i) ==
  LET future == Slice(pgs, i + 1)
      indexes == [k \in 1..Len(memory) |->
                    LET idx == IndexOf(future, memory[k])
                    IN IF idx = 0 - 1 THEN Infinity ELSE idx]
  IN IndexOf(indexes, MathMax(indexes))

\* The locals of one legacy run, and what renderStep was given per access.
InitLegacy == [memory |-> <<>>, faults |-> 0, output |-> <<>>]

\* The forEach callback of simulate for the access at 0-based index i.  The
\* new page is pushed at the end after the victim is removed; with a
\* selector that is none of the three nothing is removed.
LegacyCallback(s, pgs, i, frames, alg) ==
  LET page == pgs[i + 1]
      hit == Includes(s.memory, page)
      mem ==
        IF hit THEN s.memory
        ELSE IF Len(s.memory) < frames THEN Append(s.memory, page)
        ELSE Append(
               IF alg = "fifo" THEN ShiftRest(s.memory)
               ELSE IF alg = "lru"
                    THEN SpliceOut(s.memory, LegacyLruSlot(s.memory, pgs, i), 1)
               ELSE IF alg = "optimal"
                    THEN SpliceOut(s.memory, LegacyOptimalSlot(s.memory, pgs, i), 1)
               ELSE s.memory,
               page)
  IN [memory |-> mem,
      faults |-> IF hit THEN s.faults ELSE s.faults + 1,
      output |-> Append(s.output, [page |-> page, memory |-> mem, hit |-> hit])]

\* The legacy loop over the accesses i .. n-1 of pgs.
RECURSIVE LegacyRunTo(_, _, _, _, _, _)
LegacyRunTo(s, pgs, i, n, frames, alg) ==
  IF i >= n THEN s
  ELSE LegacyRunTo(LegacyCallback(s, pgs, i, frames, alg), pgs, i + 1, n,
                   frames, alg)

\* simulate after its first n accesses
Simulate(pgs, n, frames, alg) == LegacyRunTo(InitLegacy, pgs, 0, n, frames, alg)

\* ------------------------------------------------------------------ inputs
PageIds == 0..MaxPage

RECURSIVE SeqsUpTo(_, _)
SeqsUpTo(S, n) ==
  IF n = 0 THEN {<<>>}
  ELSE LET shorter == SeqsUpTo(S, n - 1)
       IN shorter \cup {Append(q, x) : q \in {r \in shorter : Len(r) = n - 1},
                                        x \in S}

KnownAlgos == {"fifo", "lru", "optimal"}
Algos == KnownAlgos \cup {"clock"}
FrameCounts == 0..MaxFrames

\* The reference strings of the documented scenarios.
Scenario1Pages == <<7, 0, 1, 2, 0, 3, 0, 4>>
Scenario3Pages == <<1, 2, 3, 4, 1, 2, 5>>
Scenarios ==
  {[pages |-> Scenario1Pages, frameCount |-> 3, algo |-> "fifo"],
   [pages |-> Scenario1Pages, frameCount |-> 3, algo |-> "lru"],
   [pages |-> Scenario3Pages, frameCount |-> 4, algo |-> "optimal"]}

\* Calls on every reference string up to MaxLen with every capacity and
\* selector.
GridInputs ==
  {[pages |-> p, frameCount |-> c, algo |-> a] :
     p \in SeqsUpTo(PageIds, MaxLen), c \in FrameCounts, a \in Algos}

\* Calls whose reference string is shorter than the capacity.
RoomyInputs ==
  {[pages |-> p, frameCount |-> Len(p) + 1, algo |-> a] :
     p \in SeqsUpTo(PageIds, MaxLen), a \in KnownAlgos}

\* --------------------------------------------------------- step controller
\* The page state of script.js as one record:
\*   steps, current, playing, timer   the let-variables of the closure
\*   intervals    the interval timers registered with the browser
\*   slots        what each .slot of framesArea shows (a page or the dash)
\*   incoming     the incoming tile (Hidden or the page it shows)
\*   stats        the three counters of the statistics bar
\*   highlight    the timeline card that is outlined (-1: none)
\*   speed        speedInput.value
\*   dropping     animations whose first timeout (speed + 40 ms) is pending
\*   fading       animations whose second timeout (150 ms) is pending
\* An animation keeps what its finish closure captured: the step st, its
\* index idx, and slotEls, of which live tells whether they are still the
\* slots of the document.  The css classes of the slots are not modelled.
Placeholder == 0 - 3
Hidden == 0 - 4
DefaultFrames == 3
Speeds == {1, 2}

Dashes(n) == [k \in 1..n |-> Placeholder]

\* clampFrames on an integer field value
ClampFrames(val) == Max2(1, val)

InitUi ==
  [steps |-> <<>>, current |-> 0 - 1, playing |-> FALSE, timer |-> Null,
   intervals |-> {}, slots |-> Dashes(ClampFrames(DefaultFrames)),
   incoming |-> Hidden, stats |-> [total |-> 0, faults |-> 0, hits |-> 0],
   highlight |-> 0 - 1, speed |-> 1, dropping |-> <<>>, fading |-> <<>>]

\* stopPlaying
StopPlaying(u) ==
  [u EXCEPT !.playing = FALSE,
            !.intervals = IF u.timer # Null THEN @ \ {u.timer} ELSE @,
            !.timer = Null]

\* setInterval: an id no registered interval has
FreshInterval(u) == CHOOSE n \in 1..(Cardinality(u.intervals) + 1) : n \notin u.intervals

\* startPlaying without the test of steps.length.
StartPlayingNoGuard(u) ==
  [u EXCEPT !.playing = TRUE,
            !.timer = FreshInterval(u),
            !.intervals = @ \cup {FreshInterval(u)}]

\* startPlaying
StartPlaying(u) ==
  IF Len(u.steps) = 0 THEN u
  ELSE [u EXCEPT !.playing = TRUE,
                 !.timer = FreshInterval(u),
                 !.intervals = @ \cup {FreshInterval(u)}]

\* playToggle
PlayToggle(u) == IF u.playing THEN StopPlaying(u) ELSE StartPlaying(u)

\* The finish closure of applyStep: the captured slots are repainted from
\* the captured step, and the card at idx of the present timeline is
\* outlined.  Slots that left the document change nothing that is shown.
Finish(u, a) ==
  [u EXCEPT !.slots = IF a.live
                      THEN [k \in 1..Len(@) |->
                              IF k <= Len(a.st.memory) THEN a.st.memory[k]
                              ELSE Placeholder]
                      ELSE @,
            !.highlight = IF a.idx < Len(u.steps) THEN a.idx ELSE 0 - 1]

\* applyStep(idx, animated)
ApplyStep(u, idx, animated) ==
  IF idx < 0 \/ idx >= Len(u.steps) THEN u
  ELSE LET st == u.steps[idx + 1]
           faults == Cardinality({k \in 1..(idx + 1) : ~u.steps[k].hit})
           targetIdx == IF st.replacedIndex # 0 - 1 THEN st.replacedIndex
                        ELSE Len(st.memory) - 1
           hasSlot == targetIdx >= 0 /\ targetIdx < Len(u.slots)
           a == [st |-> st, idx |-> idx, live |-> TRUE, speed |-> u.speed]
           v == [u EXCEPT !.current = idx,
                          !.stats = [total |-> Len(u.steps), faults |-> faults,
                                     hits |-> (idx + 1) - faults],
                          !.incoming = st.page]
       IN IF animated /\ hasSlot
          THEN [v EXCEPT !.dropping = Append(@, a)]
          ELSE Finish(v, a)

\* goToStep
GoToStep(u, n) ==
  LET lo == IF n < 0 THEN 0 ELSE n
      idx == IF lo >= Len(u.steps) THEN Len(u.steps) - 1 ELSE lo
  IN ApplyStep(u, idx, TRUE)

\* nextStep moving two steps at a time.
NextStepSkips(u) ==
  IF u.current < Len(u.steps) - 1 THEN GoToStep(u, u.current + 2)
  ELSE StopPlaying(u)

\* nextStep
NextStep(u) ==
  IF u.current < Len(u.steps) - 1 THEN GoToStep(u, u.current + 1)
  ELSE StopPlaying(u)

\* prevStep
PrevStep(u) == IF u.current > 0 THEN GoToStep(u, u.current - 1) ELSE u

\* The animations in flight lose the document's slots.
Detach(anims) == [k \in 1..Len(anims) |-> [anims[k] EXCEPT !.live = FALSE]]

\* buildFrameSlots(n): framesArea gets n new slots
BuildFrameSlots(u, n) ==
  [u EXCEPT !.slots = Dashes(n),
            !.dropping = Detach(@),
            !.fading = Detach(@)]

\* clearVisualization
ClearVisualization(u) ==
  StopPlaying([u EXCEPT !.slots = <<>>,
                        !.dropping = Detach(@),
                        !.fading = Detach(@),
                        !.highlight = 0 - 1,
                        !.incoming = Hidden,
                        !.stats = [total |-> 0, faults |-> 0, hits |-> 0],
                        !.steps = <<>>,
                        !.current = 0 - 1])

\* resetToInitial
ResetToInitial(u) ==
  IF Len(u.steps) = 0 THEN u
  ELSE StopPlaying([u EXCEPT !.current = 0 - 1,
                             !.slots = Dashes(Len(@)),
                             !.incoming = Hidden,
                             !.stats = [@ EXCEPT !.faults = 0, !.hits = 0]])

\* The click handler of simulateBtn, form being the parsed fields.
OnSimulate(u, form) ==
  LET s == StopPlaying(u)
  IN IF Len(form.pages) = 0 THEN s
     ELSE LET frames == ClampFrames(form.frames)
              b == BuildFrameSlots(s, frames)
              res == ComputeSteps(form.pages, frames, form.algo)
              r == [b EXCEPT !.steps = res.steps,
                             !.highlight = 0 - 1,
                             !.stats = [total |-> Len(res.steps), faults |-> 0,
                                        hits |-> 0],
                             !.current = 0 - 1]
          IN IF Len(r.steps) > 0 THEN GoToStep(r, 0) ELSE r

\* The click handlers of the other buttons
OnStepForward(u) == NextStep(StopPlaying(u))
OnStepBack(u) == PrevStep(StopPlaying(u))
OnPlayPause(u) == PlayToggle(u)
OnReset(u) == ResetToInitial(StopPlaying(u))
OnClear(u) == BuildFrameSlots(ClearVisualization(StopPlaying(u)), DefaultFrames)

\* The callback of the interval set by startPlaying
OnInterval(u) ==
  LET n == NextStep(u)
  IN IF n.current = u.current THEN StopPlaying(n) ELSE n

\* The first timeout of animateDropToSlot for the k-th animation: the tile
\* fades and the second timeout is set.
OnDropTimeout(u, k) ==
  [u EXCEPT !.dropping = SubSeq(@, 1, k - 1) \o SubSeq(@, k + 1, Len(@)),
            !.fading = Append(@, u.dropping[k])]

\* The second timeout: the tile is removed and the callback runs.
OnFadeTimeout(u) == Finish([u EXCEPT !.fading = Tail(@)], Head(u.fading))

\* Timeouts fire in the order they fall due.  An animation started earlier
\* with a delay no longer than that of a later one falls due first.
MayDrop(u, k) ==
  \A j \in 1..(k - 1) : u.dropping[j].speed > u.dropping[k].speed

\* The fields of the form at the time of a click on Simulate.
UiForms ==
  {[pages |-> <<>>, frames |-> 3, algo |-> "fifo"],
   [pages |-> <<0, 1, 0, 2>>, frames |-> 2, algo |-> "lru"],
   [pages |-> <<1, 2>>, frames |-> 0, algo |-> "fifo"]}

\* ----------------------------------------------------------- state machine
\* pages .. pc: one call of computeSteps (its arguments, the forEach index,
\* its locals, the value returned, where it stands).
\* ref: what a caller kept of an earlier call (arguments and value).
\* ui: the page state of the step controller.
VARIABLES pages, frameCount, algo, i, run, ret, pc, ref, ui

vars == <<pages, frameCount, algo, i, run, ret, pc, ref, ui>>
callVars == <<pages, frameCount, algo, i, run, ret, pc>>

\* A call on the arguments inp stands at the entry of the forEach loop.
Entered(inp) ==
  /\ pages = inp.pages
  /\ frameCount = inp.frameCount
  /\ algo = inp.algo
  /\ i = 0
  /\ ret = <<>>
  /\ pc = "loop"

\* One call of computeSteps on arguments drawn from Inputs, stopped at the
\* entry of the forEach loop.
Init ==
  /\ \/ \E inp \in GridInputs : Entered(inp)
     \/ \E inp \in RoomyInputs : Entered(inp)
     \/ \E inp \in Scenarios : Entered(inp)
  /\ run = InitRun
  /\ ref = <<>>
  /\ ui = InitUi

\* One iteration of pages.forEach
Access ==
  /\ pc = "loop"
  /\ i < Len(pages)
  /\ run' = Callback(run, pages, i, frameCount, algo)
  /\ i' = i + 1
  /\ UNCHANGED <<pages, frameCount, algo, ret, pc, ref, ui>>

\* The return statement after the loop
Return ==
  /\ pc = "loop"
  /\ i = Len(pages)
  /\ ret' = <<ReturnValue(run)>>
  /\ pc' = "returned"
  /\ UNCHANGED <<pages, frameCount, algo, i, run, ref, ui>>

Next == Access \/ Return

Spec == Init /\ [][Next]_vars

\* ------------------------------------------------------- a series of calls
\* The arguments of the calls of a series.
SessionInputs ==
  {[pages |-> p, frameCount |-> c, algo |-> a] :
     p \in SeqsUpTo({0, 1}, MaxCallLen), c \in 1..MaxFrames, a \in KnownAlgos}

\* The locals of a call that inherits the frame array of the call before it
\* (memory declared outside the function).
EntryRunKeepsFrames(prev) == [InitRun EXCEPT !.memory = prev.memory]

\* The locals at the entry of a call, prev being those the call before left
\* behind: memory, meta, result, faults and hits are created anew.
EntryRun(prev) == InitRun

InitCalls ==
  /\ \E inp \in SessionInputs : Entered(inp)
  /\ run = InitRun
  /\ ref = <<>>
  /\ ui = InitUi

\* The next call, after the one before has returned.
Call ==
  /\ pc = "returned"
  /\ \E inp \in SessionInputs :
       /\ pages' = inp.pages
       /\ frameCount' = inp.frameCount
       /\ algo' = inp.algo
  /\ i' = 0
  /\ run' = EntryRun(run)
  /\ ret' = <<>>
  /\ pc' = "loop"
  /\ ref' = [k \in 1..Len(ref) |-> [ref[k] EXCEPT !.later = TRUE]]
  /\ UNCHANGED ui

\* The caller keeps the value of a call with the arguments it was made on
\* (const res = computeSteps(pages, frameCount, algo)); later tells whether
\* a call was made since.
Remember ==
  /\ pc = "returned"
  /\ ref = <<>>
  /\ ref' = <<[pages |-> pages, frameCount |-> frameCount, algo |-> algo,
               value |-> ret[1], later |-> FALSE]>>
  /\ UNCHANGED <<callVars, ui>>

NextCalls == Access \/ Return \/ Call \/ Remember

SpecCalls == InitCalls /\ [][NextCalls]_vars

\* --------------------------------------------------- the page and its events
\* No call of computeSteps is in progress between two events.
NoCall ==
  /\ pages = <<>>
  /\ frameCount = DefaultFrames
  /\ algo = "fifo"
  /\ i = 0
  /\ run = InitRun
  /\ ret = <<>>
  /\ pc = "idle"

\* The page after init()
InitPage == NoCall /\ ref = <<>> /\ ui = InitUi

Pending == Len(ui.dropping) + Len(ui.fading)

SimulateClick ==
  /\ Pending < MaxPending
  /\ \E form \in UiForms : ui' = OnSimulate(ui, form)
  /\ UNCHANGED <<callVars, ref>>

StepForwardClick ==
  /\ Pending < MaxPending
  /\ ui' = OnStepForward(ui)
  /\ UNCHANGED <<callVars, ref>>

StepBackClick ==
  /\ Pending < MaxPending
  /\ ui' = OnStepBack(ui)
  /\ UNCHANGED <<callVars, ref>>

PlayPauseClick ==
  /\ ui' = OnPlayPause(ui)
  /\ UNCHANGED <<callVars, ref>>

ResetClick ==
  /\ ui' = OnReset(ui)
  /\ UNCHANGED <<callVars, ref>>

ClearClick ==
  /\ ui' = OnClear(ui)
  /\ UNCHANGED <<callVars, ref>>

\* A click on the card of step idx of the timeline
TimelineClick ==
  /\ Pending < MaxPending
  /\ \E idx \in 0..(Len(ui.steps) - 1) : ui' = GoToStep(ui, idx)
  /\ UNCHANGED <<callVars, ref>>

\* The speed slider is moved
SpeedInput ==
  /\ \E v \in Speeds : v # ui.speed /\ ui' = [ui EXCEPT !.speed = v]
  /\ UNCHANGED <<callVars, ref>>

\* A registered interval fires
IntervalTick ==
  /\ ui.intervals # {}
  /\ Pending < MaxPending
  /\ ui' = OnInterval(ui)
  /\ UNCHANGED <<callVars, ref>>

DropTimeout ==
  /\ \E k \in 1..Len(ui.dropping) : MayDrop(ui, k) /\ ui' = OnDropTimeout(ui, k)
  /\ UNCHANGED <<callVars, ref>>

FadeTimeout ==
  /\ Len(ui.fading) > 0
  /\ ui' = OnFadeTimeout(ui)
  /\ UNCHANGED <<callVars, ref>>

Timers == IntervalTick \/ DropTimeout \/ FadeTimeout

NextPage ==
  \/ SimulateClick \/ StepForwardClick \/ StepBackClick \/ PlayPauseClick
  \/ ResetClick \/ ClearClick \/ TimelineClick \/ SpeedInput
  \/ IntervalTick \/ DropTimeout \/ FadeTimeout

SpecPage == InitPage /\ [][NextPage]_vars

\* ------------------------------------------------ playback left to itself
\* Play was clicked on a page that shows a history at any of its steps (or
\* was reset), and no further event of the user follows.  The browser fires
\* every timer that stays set.
InitPlay ==
  /\ NoCall /\ ref = <<>>
  /\ \E form \in UiForms, v \in Speeds :
       LET shown == OnSimulate([InitUi EXCEPT !.speed = v], form)
       IN /\ Len(shown.steps) > 0
          /\ \E c \in (0 - 1)..(Len(shown.steps) - 1) :
               LET at == IF c = 0 - 1 THEN OnReset(shown)
                         ELSE IF c = 0 THEN shown
                         ELSE GoToStep(shown, c)
               IN ui = OnPlayPause(at)

NextPlay == IntervalTick \/ DropTimeout \/ FadeTimeout

SpecPlay ==
  /\ InitPlay /\ [][NextPlay]_vars
  /\ WF_vars(IntervalTick) /\ WF_vars(DropTimeout) /\ WF_vars(FadeTimeout)

\* ------------------------------------------------------------- properties
\* The step records pushed so far, and the frame snapshot access k (1-based
\* position in result) started from.
Steps == run.result
SnapBefore(k) == IF k = 1 THEN <<>> ELSE Steps[k - 1].memory
SnapAfter(k) == Steps[k].memory
Resident(snap) == {snap[j] : j \in DOMAIN snap}

\* The documented precondition: a capacity >= 1 and one of the three
\* selectors.
Valid == frameCount >= 1 /\ algo \in KnownAlgos

\* Step k is a fault that found every frame occupied.
FullFault(k) == ~Steps[k].hit /\ Len(SnapBefore(k)) = frameCount

\* Step k is a fault that filled a free slot.
FreeFill(k) == ~Steps[k].hit /\ Len(SnapAfter(k)) = Len(SnapBefore(k)) + 1

\* The pages step k removed from the frames.
EvictedSet(k) == Resident(SnapBefore(k)) \ Resident(SnapAfter(k))

SetMax(S) == CHOOSE x \in S : \A y \in S : y <= x
SetMin(S) == CHOOSE x \in S : \A y \in S : x <= y

\* The 0-based access index at which the residency of p that step k finds
\* began: the latest fault on p before step k.
ResidencyStart(p, k) ==
  SetMax({j \in 1..(k - 1) : Steps[j].page = p /\ ~Steps[j].hit}) - 1

\* The 0-based index of the latest access to p before step k.
LastAccess(p, k) == SetMax({j \in 1..(k - 1) : pages[j] = p}) - 1

\* p occurs in pages after the access of step k, and where first (0-based).
UsedAgain(p, k) == \E j \in (k + 1)..Len(pages) : pages[j] = p
NextUse(p, k) == SetMin({j \in (k + 1)..Len(pages) : pages[j] = p}) - 1

\* C1: for a capacity >= 1 and a selector among fifo, lru, optimal, there is
\* one step record per access processed, in access order, hits and faults
\* add up to the number of accesses processed, and the value returned holds
\* exactly Len(pages) records and totals that sum to Len(pages).
C1_OneRecordPerAccess ==
  Valid =>
    /\ Len(Steps) = i
    /\ run.faults + run.hits = i
    /\ \A k \in 1..Len(Steps) :
         Steps[k].index = k - 1 /\ Steps[k].page = pages[k]
    /\ pc = "returned" =>
         /\ Len(ret[1].steps) = Len(pages)
         /\ ret[1].steps = Steps
         /\ ret[1].totals.faults + ret[1].totals.hits = Len(pages)

C1_Witness ==
  /\ Valid /\ pc = "returned" /\ Len(pages) = MaxLen
  /\ ret[1].totals.hits > 0
  /\ \E k \in 1..Len(Steps) : FullFault(k)

\* C2: an access is recorded as a hit exactly when its page is an entry of
\* the snapshot recorded by the previous step (no entry at all for the
\* first access).
C2_HitIffInPreviousSnapshot ==
  Valid =>
    \A k \in 1..Len(Steps) :
      Steps[k].hit <=> pages[k] \in Resident(SnapBefore(k))

C2_Witness ==
  /\ Valid /\ pc = "returned"
  /\ \E k \in 1..Len(Steps) : Steps[k].hit /\ Len(SnapBefore(k)) = frameCount
  /\ \E k \in 1..Len(Steps) : FullFault(k)

\* C3: under fifo, a fault that finds every frame occupied evicts exactly
\* the resident page whose current residency began earliest.
C3_FifoEvictsEarliestPlaced ==
  (Valid /\ algo = "fifo") =>
    \A k \in 1..Len(Steps) :
      FullFault(k) =>
        /\ EvictedSet(k) =
             {p \in Resident(SnapBefore(k)) :
                \A q \in Resident(SnapBefore(k)) :
                  ResidencyStart(p, k) <= ResidencyStart(q, k)}
        /\ Cardinality(EvictedSet(k)) = 1
        /\ SnapBefore(k)[Steps[k].replacedIndex + 1] \in EvictedSet(k)

\* A fifo eviction of a page that was used more recently than another
\* resident page (where fifo and lru part ways).
C3_Witness ==
  /\ Valid /\ algo = "fifo"
  /\ \E k \in 1..Len(Steps) :
       /\ FullFault(k)
       /\ \E e \in EvictedSet(k) : \E q \in Resident(SnapBefore(k)) :
            LastAccess(q, k) < LastAccess(e, k)

\* C4: under lru, a fault that finds every frame occupied evicts exactly
\* the resident page whose latest access before it is the oldest.
C4_LruEvictsLeastRecentlyUsed ==
  (Valid /\ algo = "lru") =>
    \A k \in 1..Len(Steps) :
      FullFault(k) =>
        /\ EvictedSet(k) =
             {p \in Resident(SnapBefore(k)) :
                \A q \in Resident(SnapBefore(k)) :
                  LastAccess(p, k) <= LastAccess(q, k)}
        /\ Cardinality(EvictedSet(k)) = 1
        /\ SnapBefore(k)[Steps[k].replacedIndex + 1] \in EvictedSet(k)

\* An lru eviction of a page that is not the earliest placed one.
C4_Witness ==
  /\ Valid /\ algo = "lru"
  /\ \E k \in 1..Len(Steps) :
       /\ FullFault(k)
       /\ \E e \in EvictedSet(k) : \E q \in Resident(SnapBefore(k)) :
            ResidencyStart(q, k) < ResidencyStart(e, k)

\* C5: under optimal, a fault that finds every frame occupied evicts one
\* page; if some resident page is never used again the evicted page is never
\* used again, otherwise its next use is the farthest of all resident pages.
C5_OptimalEvictsFarthest ==
  (Valid /\ algo = "optimal") =>
    \A k \in 1..Len(Steps) :
      FullFault(k) =>
        /\ Cardinality(EvictedSet(k)) = 1
        /\ \A e \in EvictedSet(k) :
             IF \E q \in Resident(SnapBefore(k)) : ~UsedAgain(q, k)
             THEN ~UsedAgain(e, k)
             ELSE \A q \in Resident(SnapBefore(k)) :
                    NextUse(q, k) <= NextUse(e, k)

\* An optimal eviction among pages that are all used again, the farthest
\* one not being in the first slot.
C5_Witness ==
  /\ Valid /\ algo = "optimal"
  /\ \E k \in 1..Len(Steps) :
       /\ FullFault(k)
       /\ \A q \in Resident(SnapBefore(k)) : UsedAgain(q, k)
       /\ Steps[k].replacedIndex > 0

\* The slots of the snapshot before step k whose page is never used again.
DeadSlots(k) ==
  {j \in 1..Len(SnapBefore(k)) : ~UsedAgain(SnapBefore(k)[j], k)}

\* C6: under optimal, when resident pages are never used again the one in
\* the highest slot is replaced; for pages 1 2 3 4 1 2 5 with 4 frames the
\* last access replaces page 4 in slot 3.
C6_OptimalLastDeadSlotWins ==
  /\ (Valid /\ algo = "optimal") =>
       \A k \in 1..Len(Steps) :
         (FullFault(k) /\ DeadSlots(k) # {}) =>
           /\ Steps[k].replacedIndex = SetMax(DeadSlots(k)) - 1
           /\ EvictedSet(k) = {SnapBefore(k)[SetMax(DeadSlots(k))]}
  /\ (pages = Scenario3Pages /\ frameCount = 4 /\ algo = "optimal"
      /\ pc = "returned") =>
       /\ Steps[7].replacedIndex = 3
       /\ EvictedSet(7) = {4}
       /\ SnapAfter(7) = <<1, 2, 3, 5>>

C6_Witness ==
  /\ pages = Scenario3Pages /\ frameCount = 4 /\ algo = "optimal"
  /\ pc = "returned"
  /\ Cardinality(DeadSlots(7)) = 4

\* C7 (as claimed): a capacity below 1 is rejected: no call with such a
\* capacity returns step records.
C7_InvalidCapacityRejected ==
  frameCount < 1 => ~(pc = "returned" /\ Len(ret[1].steps) > 0)

\* C8 (as claimed): an unknown selector never yields a degraded result:
\* no call with such a selector (and a capacity >= 1) returns fewer step
\* records than accesses or a fault count without matching fault records.
C8_UnknownAlgorithmRejected ==
  (algo \notin KnownAlgos /\ frameCount >= 1 /\ pc = "returned") =>
    /\ Len(ret[1].steps) = Len(pages)
    /\ ret[1].totals.faults =
         Cardinality({k \in 1..Len(ret[1].steps) : ~ret[1].steps[k].hit})

\* The scenario 1 run has returned.
Scenario1FifoDone ==
  /\ pages = Scenario1Pages /\ frameCount = 3 /\ algo = "fifo"
  /\ pc = "returned"

\* C9 (as claimed): scenario 1 under fifo ends with 6 faults and 2 hits and
\* its access at index 3 evicts page 7.
C9_Scenario1AsClaimed ==
  Scenario1FifoDone =>
    /\ ret[1].totals.faults = 6
    /\ ret[1].totals.hits = 2
    /\ EvictedSet(4) = {7}

\* C9 (amended): scenario 1 under fifo ends with 7 faults and 1 hit and its
\* access at index 3 evicts page 7.
C9_Scenario1Fifo ==
  Scenario1FifoDone =>
    /\ ret[1].totals.faults = 7
    /\ ret[1].totals.hits = 1
    /\ Steps[4].page = 2
    /\ EvictedSet(4) = {7}
    /\ Steps[4].info = <<"FIFO replaced", 7>>

C9_Witness == Scenario1FifoDone /\ Len(Steps) = 8 /\ Steps[5].hit

\* C10 (as claimed): replacedIndex is -1 on every hit and on every fault
\* that fills a free slot.
C10_NoSlotWithoutEviction ==
  Valid =>
    \A k \in 1..Len(Steps) :
      (Steps[k].hit \/ FreeFill(k)) => Steps[k].replacedIndex = 0 - 1

\* C11: with one frame the first access faults and every later access hits
\* exactly when it repeats the page accessed just before it.
C11_SingleFrame ==
  (Valid /\ frameCount = 1) =>
    \A k \in 1..Len(Steps) :
      Steps[k].hit <=> (k > 1 /\ pages[k] = pages[k - 1])

C11_Witness ==
  /\ Valid /\ frameCount = 1 /\ pc = "returned" /\ Len(pages) = MaxLen
  /\ \E k \in 2..Len(Steps) : Steps[k].hit
  /\ \E k \in 2..Len(Steps) : ~Steps[k].hit /\ \E j \in 1..(k - 2) : pages[j] = pages[k]

\* C12: when the reference string is shorter than the capacity no step
\* removes a page (every fault appends to the frames), and the call returns
\* as many faults as there are distinct pages and the rest as hits.
C12_ShortSequenceNeverEvicts ==
  (Valid /\ Len(pages) < frameCount) =>
    /\ \A k \in 1..Len(Steps) :
         /\ EvictedSet(k) = {}
         /\ ~Steps[k].hit => FreeFill(k)
    /\ pc = "returned" =>
         /\ ret[1].totals.faults = Cardinality(Resident(pages))
         /\ ret[1].totals.hits = Len(pages) - Cardinality(Resident(pages))

C12_Witness ==
  /\ Valid /\ Len(pages) < frameCount /\ pc = "returned"
  /\ Len(pages) = MaxLen
  /\ ret[1].totals.hits > 0
  /\ ret[1].totals.faults > 2
  /\ \E k \in 2..(Len(pages) - 1) : Steps[k].hit /\ ~Steps[k + 1].hit

C15_SnapshotShape ==
  Valid =>
    \A k \in 1..Len(Steps) :
      /\ Len(SnapAfter(k)) <= frameCount
      /\ Cardinality(Resident(SnapAfter(k))) = Len(SnapAfter(k))
      /\ pages[k] \in Resident(SnapAfter(k))
      /\ Len(SnapAfter(k)) >= Len(SnapBefore(k))

C15_Witness ==
  /\ Valid /\ pc = "returned" /\ frameCount = MaxFrames
  /\ \E k \in 1..(Len(Steps) - 1) :
       FullFault(k) /\ Len(SnapAfter(k + 1)) = frameCount

\* C20: for a capacity >= 1 and one of the three selectors, after each access
\* the keys of lastUsed are the resident pages, fifoQueue is a permutation of
\* the frames, and lastUsed maps each resident page to the index of its
\* latest access; so the lru scan finds every page in lastUsed and the head
\* of fifoQueue is a resident page.
C20_BookkeepingMatchesFrames ==
  Valid =>
    /\ DOMAIN run.lastUsed = Resident(run.memory)
    /\ Len(run.fifoQueue) = Len(run.memory)
    /\ Resident(run.fifoQueue) = Resident(run.memory)
    /\ Cardinality(Resident(run.fifoQueue)) = Len(run.fifoQueue)
    /\ \A p \in Resident(run.memory) :
         run.lastUsed[p] = SetMax({j \in 1..i : pages[j] = p}) - 1
    /\ Len(run.memory) > 0 => Head(run.fifoQueue) \in Resident(run.memory)

\* Full frames under fifo whose arrival order is no longer the slot order,
\* with a page that was hit after it was placed.
C20_Witness ==
  /\ Valid /\ algo = "fifo" /\ frameCount >= 2
  /\ Len(run.memory) = frameCount
  /\ run.fifoQueue # run.memory
  /\ \E k \in 1..Len(Steps) : FullFault(k)
  /\ \E p \in Resident(run.memory) : run.lastUsed[p] > ResidencyStart(p, i + 1)

\* C16: for a capacity >= 1 and each of fifo, lru and optimal, the legacy
\* loop and computeSteps classify every access alike as hit or fault and
\* count the same number of faults (and under fifo and lru they hold the
\* same set of resident pages, whatever the slot order).
C16_LegacyAgreesOnHits ==
  Valid =>
    LET old == Simulate(pages, i, frameCount, algo)
    IN /\ Len(old.output) = Len(Steps)
       /\ \A k \in 1..Len(Steps) : old.output[k].hit = Steps[k].hit
       /\ old.faults = run.faults
       /\ (algo # "optimal") => Resident(old.memory) = Resident(run.memory)

\* A returned optimal run in which the two versions ended with different
\* pages in their frames, after at least two replacements.
C16_Witness ==
  /\ Valid /\ algo = "optimal" /\ pc = "returned"
  /\ Resident(Simulate(pages, i, frameCount, algo).memory) # Resident(run.memory)
  /\ Cardinality({k \in 1..Len(Steps) : FullFault(k)}) >= 2
  /\ \E k \in 1..Len(Steps) : Steps[k].hit

Shown(u, c) ==
  [k \in 1..Len(u.slots) |->
     IF c >= 0 /\ k <= Len(u.steps[c + 1].memory) THEN u.steps[c + 1].memory[k]
     ELSE Placeholder]

\* C17 (as claimed): whenever no animation timeout is pending the slots show
\* the memory of the current step, or dashes only when there is none.
C17_SlotsShowCurrentStep ==
  (ui.dropping = <<>> /\ ui.fading = <<>>) => ui.slots = Shown(ui, ui.current)

\* C18: with playback left to itself, a tick of the interval moves current
\* on by one step and leaves playback on, or, at the last step, leaves
\* current and turns playback off with the interval cleared; and playback
\* ends up off for good at the last step.
C18_PlaybackRunsToTheEnd ==
  /\ [][IntervalTick =>
          IF ui.current < Len(ui.steps) - 1
          THEN ui'.current = ui.current + 1 /\ ui'.playing
               /\ ui'.intervals = ui.intervals
          ELSE ui'.current = ui.current /\ ~ui'.playing
               /\ ui'.timer = Null /\ ui'.intervals = {}]_vars
  /\ <>[](/\ ~ui.playing /\ ui.timer = Null /\ ui.intervals = {}
          /\ ui.current = Len(ui.steps) - 1)

\* Playback has stopped at the last of four steps, every animation done.
C18_Witness ==
  /\ pc = "idle" /\ ~ui.playing /\ ui.intervals = {}
  /\ Len(ui.steps) = 4 /\ ui.current = 3
  /\ ui.dropping = <<>> /\ ui.fading = <<>>
  /\ ui.slots = Shown(ui, 3)

\* C19: playing is true exactly when timer holds an interval, the intervals
\* registered are that one and no other, and playing is never true on an
\* empty history.
C19_PlayingIffOneInterval ==
  /\ ui.playing <=> ui.timer # Null
  /\ ui.intervals = IF ui.timer # Null THEN {ui.timer} ELSE {}
  /\ Cardinality(ui.intervals) <= 1
  /\ ui.playing => Len(ui.steps) > 0

\* Playback is on in the middle of a history, after Play was clicked on and
\* off before (an animation of an earlier history is still in flight).
C19_Witness ==
  /\ pc = "idle" /\ ui.playing /\ Cardinality(ui.intervals) = 1
  /\ ui.current > 0 /\ ui.current < Len(ui.steps) - 1
  /\ \E k \in 1..Len(ui.fading) : ~ui.fading[k].live

====
